---- MODULE Spec2Model ----
(***************************************************************************)
(* Release tracker: the ingestion script (fetchAllReleases, main,          *)
(* saveRawCSV) and the aggregation functions of the stats service and of   *)
(* the two dashboards.                                                     *)
(*                                                                         *)
(* Conventions.                                                            *)
(*  - Text whose characters matter (years, months) is a sequence of        *)
(*    one-character strings: "2023" is <<"2","0","2","3">>.                *)
(*  - A published_at text "YYYY-MM-DDThh:mm:00Z" is the record             *)
(*    [y, m, d, min] of its fields (min = minute of the day); NoDate is    *)
(*    the null that the upstream sends for an unpublished release.         *)
(*  - Date.getTime() is counted in minutes since 1970-01-01T00:00Z, and    *)
(*    the length of a day likewise (the code divides a difference of       *)
(*    getTime() values by the length of a day, so the common factor 60000  *)
(*    cancels; minutes keep the values inside TLC's integers).             *)
(*  - The process time zone is UTC.                                        *)
(***************************************************************************)
EXTENDS Integers, Sequences, FiniteSets, TLC

VARIABLES
    served,         \* upstream: per repository, the outcomes it has answered, in page order
    requests,       \* per repository, the page numbers requested so far, in order
    fpc,            \* per repository, where its fetchAllReleases call stands
    page,           \* fetchAllReleases: let page
    releases,       \* fetchAllReleases: let releases
    errlog,         \* console.error lines of fetchAllReleases: the repositories, in order
    completed,      \* the repositories in the order their fetchAllReleases returned
    mpc,            \* where main stands
    allReleaseInfo, \* main: allReleaseInfo
    rawCsv,         \* release-raw.csv: [written, rows]
    statsCsv,       \* release-stats.csv: [written, rows]
    call,           \* the last aggregation call made on the table and its result
    reqs            \* the stats service: per request, where it stands and its reply

vars == <<served, requests, fpc, page, releases, errlog, completed, mpc,
          allReleaseInfo, rawCsv, statsCsv, call, reqs>>

pipeVars == <<served, requests, fpc, page, releases, errlog, completed, mpc,
              allReleaseInfo, statsCsv>>

----------------------------------------------------------------------------
(* Bounds of the model *)

\* the upstream has at most MaxPages non-empty pages per repository
MaxPages == 2

\* the table read by the stats side has at most MaxRows rows
MaxRows == 4

\* the statistics file is written for at most MaxInfos records
MaxInfos == 3

\* the stats service is asked at most MaxRequests times, on a table of at most
\* MaxServedRows rows
MaxRequests == 2

MaxServedRows == 3

----------------------------------------------------------------------------
(* Sequences *)

RECURSIVE SeqSum(_)
SeqSum(s) == IF s = <<>> THEN 0 ELSE Head(s) + SeqSum(Tail(s))

RECURSIVE FlattenSeq(_)
FlattenSeq(ss) == IF ss = <<>> THEN <<>> ELSE Head(ss) \o FlattenSeq(Tail(ss))

Range(s) == {s[i] : i \in DOMAIN s}

\* Array.prototype.filter
Filter(s, Keep(_)) ==
    LET F[i \in 0..Len(s)] ==
            IF i = 0 THEN <<>>
            ELSE IF Keep(s[i]) THEN Append(F[i - 1], s[i]) ELSE F[i - 1]
    IN  F[Len(s)]

\* the number of elements of s that satisfy P
Count(s, P(_)) == Cardinality({i \in DOMAIN s : P(s[i])})

\* Array.prototype.sort with a consistent comparator: stable; Before(a, b) is
\* "compare(a, b) < 0". Each element goes behind the elements already placed that
\* it is not before.
SortBy(s, Before(_, _)) ==
    LET Ins(t, x) ==
            LET k == Cardinality({j \in DOMAIN t : ~Before(x, t[j])})
            IN  SubSeq(t, 1, k) \o <<x>> \o SubSeq(t, k + 1, Len(t))
        S[i \in 0..Len(s)] == IF i = 0 THEN <<>> ELSE Ins(S[i - 1], s[i])
    IN  S[Len(s)]

\* the entries [key, count] of "by[k] = by[k] || {.., count: 0}; by[k].count += 1"
\* run over keys, in the order in which the keys were first set
GroupCount(keys) ==
    LET first == {i \in DOMAIN keys : \A j \in 1..(i - 1) : keys[j] # keys[i]}
        pos   == Filter([i \in DOMAIN keys |-> i], LAMBDA i : i \in first)
    IN  [n \in DOMAIN pos |->
            [key   |-> keys[pos[n]],
             count |-> Cardinality({j \in DOMAIN keys : keys[j] = keys[pos[n]]})]]

----------------------------------------------------------------------------
(* Text *)

Digits == <<"0", "1", "2", "3", "4", "5", "6", "7", "8", "9">>

DigitVal(c) == (CHOOSE i \in 1..10 : Digits[i] = c) - 1

\* Number.prototype.toString of a non-negative integer
RECURSIVE NumToString(_)
NumToString(n) ==
    IF n < 10 THEN <<Digits[n + 1]>>
    ELSE NumToString(n \div 10) \o <<Digits[(n % 10) + 1]>>

\* the number a text of digits denotes
RECURSIVE StrToNum(_)
StrToNum(s) ==
    IF s = <<>> THEN 0 ELSE 10 * StrToNum(SubSeq(s, 1, Len(s) - 1)) + DigitVal(s[Len(s)])

\* String.prototype.padStart(2, "0")
padStart2(s) == IF Len(s) >= 2 THEN s ELSE IF Len(s) = 1 THEN <<"0">> \o s ELSE <<"0", "0">>

\* a.localeCompare(b) < 0 for texts of digits: the first differing character decides,
\* a proper prefix sorts first
RECURSIVE TextLess(_, _)
TextLess(a, b) ==
    IF b = <<>> THEN FALSE
    ELSE IF a = <<>> THEN TRUE
    ELSE IF Head(a) # Head(b) THEN DigitVal(Head(a)) < DigitVal(Head(b))
    ELSE TextLess(Tail(a), Tail(b))

----------------------------------------------------------------------------
(* Calendar: parseISO / new Date and the date-fns getters, in UTC *)

NoDate == [y |-> 0, m |-> 0, d |-> 0, min |-> 0]

\* parseISO gives a valid date
IsValidDate(p) == p # NoDate

\* days from 1970-01-01 to the civil date y-m-d (proleptic Gregorian calendar)
DaysFromCivil(y, m, d) ==
    LET yy  == IF m <= 2 THEN y - 1 ELSE y
        era == yy \div 400
        yoe == yy - era * 400
        mp  == IF m > 2 THEN m - 3 ELSE m + 9
        doy == (153 * mp + 2) \div 5 + d - 1
        doe == yoe * 365 + yoe \div 4 - yoe \div 100 + doy
    IN  era * 146097 + doe - 719468

MIN_PER_DAY == 1440

\* new Date(str).getTime(), in minutes
getTime(p) == DaysFromCivil(p.y, p.m, p.d) * MIN_PER_DAY + p.min

\* getDay(parseISO(str)): 0 = Sunday .. 6 = Saturday
getDay(p) == (DaysFromCivil(p.y, p.m, p.d) + 4) % 7

getYear(p) == p.y

\* getMonth(parseISO(str)): 0 = January
getMonth(p) == p.m - 1

days == <<"Sunday", "Monday", "Tuesday", "Wednesday", "Thursday", "Friday", "Saturday">>

getWeekday(p) == days[getDay(p) + 1]

\* a.published_at.localeCompare(b.published_at) < 0 for two texts
\* "YYYY-MM-DDThh:mm:00Z": fixed-width digits, so the fields decide in order
PublishedAtLess(a, b) ==
    \/ a.y < b.y
    \/ a.y = b.y /\ a.m < b.m
    \/ a.y = b.y /\ a.m = b.m /\ a.d < b.d
    \/ a.y = b.y /\ a.m = b.m /\ a.d = b.d /\ a.min < b.min

----------------------------------------------------------------------------
(* Configuration *)

REPOS == <<"daangn/stackflow", "daangn/seed-design">>

RepoIdx == 1..Len(REPOS)

\* a.repo.localeCompare(b.repo) < 0: the names share "daangn/s", then "e" < "t"
RepoLess(a, b) == a = "daangn/seed-design" /\ b = "daangn/stackflow"

per_page == 100

----------------------------------------------------------------------------
(* The upstream listing endpoint *)

\* what the upstream can answer to one page request: an error, or a page
PageKinds == {"empty", "short", "full", "draft"}

\* a field the upstream may leave out (null), or send with a value
Null == [present |-> FALSE, value |-> "null"]

Some(v) == [present |-> TRUE, value |-> v]

\* author: { login: string } | null
NoAuthor == [present |-> FALSE, value |-> [login |-> "null"]]

Author(login) == [present |-> TRUE, value |-> [login |-> login]]

\* assets: { name: string }[]
Assets(names) == [j \in DOMAIN names |-> [name |-> names[j]]]

\* GithubRelease, the fields the pipeline reads
GithubRelease(id, created_at, published_at, draft, prerelease, name, author, body, assets) ==
    [id |-> id, created_at |-> created_at, published_at |-> published_at,
     draft |-> draft, prerelease |-> prerelease,
     name |-> name, author |-> author, body |-> body, assets |-> assets]

\* the body of page k of the listing, by the kind of page the upstream serves:
\* a full page lists a Wednesday release before a Sunday one (newest first), a
\* short page a Tuesday prerelease, a draft page an unpublished draft
PageBody(kind, k) ==
    LET base == (k - 1) * per_page
        odd  == k % 2 = 1
        jan(d) == [y |-> 2023, m |-> 1, d |-> d, min |-> 0]
    IN  CASE kind = "full"  ->
               << GithubRelease(base + 1, jan(3), jan(4), FALSE, FALSE,
                                Some("v2"), IF odd THEN Author("alice") ELSE NoAuthor,
                                IF odd THEN Some("notes") ELSE Null,
                                Assets(<<"a.zip", "b.tgz">>)),
                  GithubRelease(base + 2, jan(1), jan(1), FALSE, FALSE,
                                Null, IF odd THEN NoAuthor ELSE Author("bob"),
                                IF odd THEN Null ELSE Some("fixes"),
                                Assets(<<>>)) >>
          [] kind = "short" ->
               << GithubRelease(base + 1, jan(10), jan(10), FALSE, TRUE,
                                IF odd THEN Null ELSE Some("v3-rc"),
                                IF odd THEN Author("bob") ELSE NoAuthor,
                                IF odd THEN Null ELSE Some("candidate"),
                                Assets(<<"c.zip">>)) >>
          [] kind = "draft" ->
               << GithubRelease(base + 1, jan(11), NoDate, TRUE, FALSE,
                                IF odd THEN Some("next") ELSE Null,
                                IF odd THEN Author("alice") ELSE NoAuthor,
                                IF odd THEN Null ELSE Some("wip"),
                                Assets(<<>>)) >>
          [] OTHER -> <<>>

\* the pages the upstream can serve for page number k: it has at most MaxPages
\* non-empty pages
ServablePages(k) == IF k <= MaxPages THEN PageKinds ELSE {"empty"}

----------------------------------------------------------------------------
(* fetchAllReleases, one call per repository (release-analyze.ts) *)

\* a variant that takes a page shorter than a full one for the last page
StopsOnShortPage(data) == Len(data) < 2

\* if (!data.length) break
StopsPagination(data) == Len(data) = 0

\* page++
NextPage(p) == p + 1

\* the request for page[i] is answered with a page: from the await to the break, or
\* round the loop to the next await
ResponsePage(i, kind) ==
    /\ mpc = "awaitAll"
    /\ fpc[i] = "awaiting"
    /\ Len(requests[i]) = Len(served[i]) + 1
    /\ kind \in ServablePages(page[i])
    /\ served' = [served EXCEPT ![i] = Append(@, kind)]
    /\ LET data == PageBody(kind, page[i])
       IN  IF StopsPagination(data)
           THEN /\ fpc' = [fpc EXCEPT ![i] = "returned"]
                /\ completed' = Append(completed, i)
                /\ UNCHANGED <<releases, page, requests>>
           ELSE /\ releases' = [releases EXCEPT ![i] = @ \o data]
                /\ page' = [page EXCEPT ![i] = NextPage(@)]
                /\ requests' = [requests EXCEPT ![i] = Append(@, NextPage(page[i]))]
                /\ UNCHANGED <<fpc, completed>>
    /\ UNCHANGED <<errlog, mpc, allReleaseInfo, rawCsv, statsCsv, call, reqs>>

\* a variant that lets the error escape fetchAllReleases: Promise.all rejects,
\* main rejects, process.exit(1)
ResponseErrorThrows(i) ==
    /\ mpc = "awaitAll"
    /\ fpc[i] = "awaiting"
    /\ served' = [served EXCEPT ![i] = Append(@, "fail")]
    /\ fpc' = [fpc EXCEPT ![i] = "returned"]
    /\ completed' = Append(completed, i)
    /\ mpc' = "failed"
    /\ UNCHANGED <<errlog, releases, page, requests, allReleaseInfo, rawCsv, statsCsv, call, reqs>>

\* a variant that asks for the same page again after an error
ResponseErrorRetries(i) ==
    /\ mpc = "awaitAll"
    /\ fpc[i] = "awaiting"
    /\ Len(requests[i]) <= MaxPages + 1
    /\ served' = [served EXCEPT ![i] = Append(@, "fail")]
    /\ errlog' = Append(errlog, i)
    /\ requests' = [requests EXCEPT ![i] = Append(@, page[i])]
    /\ UNCHANGED <<fpc, completed, releases, page, mpc, allReleaseInfo, rawCsv, statsCsv, call, reqs>>

\* a variant whose catch logs the error and then waits for an answer that was
\* never asked for
ResponseErrorHangs(i) ==
    /\ mpc = "awaitAll"
    /\ fpc[i] = "awaiting"
    /\ Len(requests[i]) = Len(served[i]) + 1
    /\ served' = [served EXCEPT ![i] = Append(@, "fail")]
    /\ errlog' = Append(errlog, i)
    /\ UNCHANGED <<fpc, completed, releases, page, requests, mpc, allReleaseInfo,
                   rawCsv, statsCsv, call, reqs>>

\* the request for page[i] fails: catch, console.error, break, return releases
ResponseError(i) ==
    /\ mpc = "awaitAll"
    /\ fpc[i] = "awaiting"
    /\ Len(requests[i]) = Len(served[i]) + 1
    /\ served' = [served EXCEPT ![i] = Append(@, "fail")]
    /\ errlog' = Append(errlog, i)
    /\ fpc' = [fpc EXCEPT ![i] = "returned"]
    /\ completed' = Append(completed, i)
    /\ UNCHANGED <<releases, page, requests, mpc, allReleaseInfo, rawCsv, statsCsv, call, reqs>>

----------------------------------------------------------------------------
(* extractReleaseInfo and saveRawCSV (release-analyze.ts) *)

\* x ?? d keeps the value when it is there
NullishKeep(x, d) == x.value

\* x ?? d
NullishOr(x, d) == IF x.present THEN x.value ELSE d

\* raw.author?.login
AuthorLogin(raw) == IF raw.author.present THEN Some(raw.author.value.login) ELSE Null

\* names.join(sep): the pieces of the joined text, the names with sep between them
Join(names, sep) ==
    [n \in 1..(IF Len(names) = 0 THEN 0 ELSE 2 * Len(names) - 1) |->
        IF n % 2 = 1 THEN names[(n + 1) \div 2] ELSE sep]

extractReleaseInfo(repo, raw) ==
    [repo          |-> repo,
     release_id    |-> raw.id,
     release_name  |-> NullishOr(raw.name, ""),
     author        |-> NullishOr(AuthorLogin(raw), ""),
     created_at    |-> raw.created_at,
     published_at  |-> raw.published_at,
     is_draft      |-> raw.draft,
     is_prerelease |-> raw.prerelease,
     body          |-> NullishOr(raw.body, ""),
     assets_count  |-> Len(raw.assets),
     assets_names  |-> Join([j \in DOMAIN raw.assets |-> raw.assets[j].name], ";")]

MapExtract(repo, raws) == [j \in DOMAIN raws |-> extractReleaseInfo(repo, raws[j])]

\* a format that gives a text for every date
FormatNeverThrows(r) == FALSE

\* format(published, "yyyy-MM-dd") throws a RangeError on an invalid date
FormatThrows(r) == ~IsValidDate(r.published_at)

\* the record saveRawCSV builds for one release
RawRecord(r) ==
    [repo              |-> r.repo,
     release_id        |-> r.release_id,
     published_at      |-> r.published_at,
     is_draft          |-> r.is_draft,
     is_prerelease     |-> r.is_prerelease,
     published_weekday |-> getWeekday(r.published_at),
     published_year    |-> getYear(r.published_at),
     published_month   |-> getMonth(r.published_at) + 1]

\* records.sort by published_at alone
RawRecordBeforeByDate(a, b) == PublishedAtLess(a.published_at, b.published_at)

\* records.sort: by repo, then by published_at, both as text
RawRecordBefore(a, b) ==
    IF a.repo # b.repo THEN RepoLess(a.repo, b.repo)
    ELSE PublishedAtLess(a.published_at, b.published_at)

\* a writer that spells a boolean with a capital letter
CsvBoolCapital(b) == IF b THEN "True" ELSE "False"

\* csvWriter.writeRecords: every field is written as its text
CsvBool(b) == IF b THEN "true" ELSE "false"

CsvRow(rec) ==
    [repo              |-> rec.repo,
     release_id        |-> rec.release_id,
     published_at      |-> rec.published_at,
     is_draft          |-> CsvBool(rec.is_draft),
     is_prerelease     |-> CsvBool(rec.is_prerelease),
     published_weekday |-> rec.published_weekday,
     published_year    |-> NumToString(rec.published_year),
     published_month   |-> NumToString(rec.published_month)]

\* the rows saveRawCSV writes for releases none of which makes format throw
RawCsvRows(infos) ==
    LET records == [j \in DOMAIN infos |-> RawRecord(infos[j])]
        sorted  == SortBy(records, RawRecordBefore)
    IN  [j \in DOMAIN sorted |-> CsvRow(sorted[j])]

NoFile == [written |-> FALSE, rows |-> <<>>]

----------------------------------------------------------------------------
(* makeStats and the statistics file *)

\* a weekend of Friday and Saturday
WEEKEND_FRIDAY_SATURDAY == {5, 6}

\* 0: Sunday, 6: Saturday
WEEKEND_DAYS == {0, 6}

\* isWeekday(dateString)
isWeekday(p) == getDay(p) \notin WEEKEND_DAYS

\* startOfWeek of a day number, weeks starting on Sunday (the default locale)
startOfWeek(dn) == dn - ((dn + 4) % 7)

\* getWeekYear: the year whose first week (the week of its 1 January) the date is in
getWeekYear(p) ==
    LET dn == DaysFromCivil(p.y, p.m, p.d)
    IN  IF dn >= startOfWeek(DaysFromCivil(p.y + 1, 1, 1)) THEN p.y + 1
        ELSE IF dn >= startOfWeek(DaysFromCivil(p.y, 1, 1)) THEN p.y
        ELSE p.y - 1

\* getWeek: the weeks from the start of the week year to the week of the date, plus 1
getWeek(p) ==
    LET dn == DaysFromCivil(p.y, p.m, p.d)
    IN  (startOfWeek(dn) - startOfWeek(DaysFromCivil(getWeekYear(p), 1, 1))) \div 7 + 1

\* String.prototype.padStart(4, "0") of the year in format(d, "yyyy-MM-dd")
RECURSIVE padStart4(_)
padStart4(s) == IF Len(s) >= 4 THEN s ELSE padStart4(<<"0">> \o s)

\* `${y}`
YearPeriod(p) == NumToString(getYear(p))

\* `${y}-W${w}`
WeekPeriod(p) == NumToString(getYear(p)) \o <<"-", "W">> \o NumToString(getWeek(p))

\* format(d, "yyyy-MM-dd")
DayPeriod(p) ==
    padStart4(NumToString(p.y)) \o <<"-">> \o padStart2(NumToString(p.m))
        \o <<"-">> \o padStart2(NumToString(p.d))

\* the place of a character of a period in the collation: "-", the digits, "W"
CharRank(c) == IF c = "-" THEN 0 ELSE IF c = "W" THEN 11 ELSE DigitVal(c) + 1

\* a.period.localeCompare(b.period) < 0
RECURSIVE PeriodLess(_, _)
PeriodLess(a, b) ==
    IF b = <<>> THEN FALSE
    ELSE IF a = <<>> THEN TRUE
    ELSE IF Head(a) # Head(b) THEN CharRank(Head(a)) < CharRank(Head(b))
    ELSE PeriodLess(Tail(a), Tail(b))

\* a.type.localeCompare(b.type) < 0: "Daily" < "Weekly" < "Yearly"
TypeLess(a, b) ==
    \/ a = "Daily" /\ b \in {"Weekly", "Yearly"}
    \/ a = "Weekly" /\ b = "Yearly"

\* the three counters of makeStats over the dates it is given: the keys
\* `${repo}__${period}` in the order in which they were first set
StatsOver(repos, dates) ==
    [yearly |-> GroupCount([j \in DOMAIN dates |->
                               [repo |-> repos[j], period |-> YearPeriod(dates[j])]]),
     weekly |-> GroupCount([j \in DOMAIN dates |->
                               [repo |-> repos[j], period |-> WeekPeriod(dates[j])]]),
     daily  |-> GroupCount([j \in DOMAIN dates |->
                               [repo |-> repos[j], period |-> DayPeriod(dates[j])]])]

\* makeStats of the ingestion script: weekdays by published_at
makeStats(infos) ==
    LET Counted(r) == isWeekday(r.published_at)
        rs == Filter(infos, Counted)
    IN  StatsOver([j \in DOMAIN rs |-> rs[j].repo], [j \in DOMAIN rs |-> rs[j].published_at])

\* makeStats of the earlier script: weekdays by created_at
makeStatsCreated(infos) ==
    LET Counted(r) == isWeekday(r.created_at)
        rs == Filter(infos, Counted)
    IN  StatsOver([j \in DOMAIN rs |-> rs[j].repo], [j \in DOMAIN rs |-> rs[j].created_at])

\* makeStats beside the controller: every release, by created_at
makeStatsAll(infos) ==
    StatsOver([j \in DOMAIN infos |-> infos[j].repo],
              [j \in DOMAIN infos |-> infos[j].created_at])

\* for (const [k, v] of Object.entries(...)): k.split("__") and the push
StatRecords(type, entries) ==
    [j \in DOMAIN entries |->
        [type |-> type, period |-> entries[j].key.period,
         repo |-> entries[j].key.repo, count |-> entries[j].count]]

\* the records in the order of the three loops
PushedRecords(stats) ==
    StatRecords("Yearly", stats.yearly) \o StatRecords("Weekly", stats.weekly)
        \o StatRecords("Daily", stats.daily)

\* records.sort: by repo, then type, then period, each as text
StatRecordBefore(a, b) ==
    IF a.repo # b.repo THEN RepoLess(a.repo, b.repo)
    ELSE IF a.type # b.type THEN TypeLess(a.type, b.type)
    ELSE PeriodLess(a.period, b.period)

\* saveStatsCSV: the rows written
saveStatsCSV(stats) == SortBy(PushedRecords(stats), StatRecordBefore)

\* main beside the controller writes the records as pushed
StatRowsUnsorted(stats) == PushedRecords(stats)

NoStats == [written |-> FALSE, by |-> "none", rows |-> <<>>]


----------------------------------------------------------------------------
(* main (release-analyze.ts) *)

\* the repositories in the order their fetches returned
allReleasesByCompletion == [i \in RepoIdx |-> releases[completed[i]]]

\* await Promise.all(REPOS.map(fetchAllReleases)): the results, in the order of REPOS
allReleasesByRepo == [i \in RepoIdx |-> releases[i]]

\* a variant in which every call asks for its first two pages at once
MainStartPrefetch ==
    /\ mpc = "start"
    /\ releases' = [i \in RepoIdx |-> <<>>]
    /\ page' = [i \in RepoIdx |-> 1]
    /\ requests' = [i \in RepoIdx |-> <<1, 2>>]
    /\ fpc' = [i \in RepoIdx |-> "awaiting"]
    /\ mpc' = "awaitAll"
    /\ UNCHANGED <<served, errlog, completed, allReleaseInfo, rawCsv, statsCsv, call, reqs>>

\* REPOS.map(fetchAllReleases): every call runs to its first await
MainStart ==
    /\ mpc = "start"
    /\ releases' = [i \in RepoIdx |-> <<>>]
    /\ page' = [i \in RepoIdx |-> 1]
    /\ requests' = [i \in RepoIdx |-> <<1>>]
    /\ fpc' = [i \in RepoIdx |-> "awaiting"]
    /\ mpc' = "awaitAll"
    /\ UNCHANGED <<served, errlog, completed, allReleaseInfo, rawCsv, statsCsv, call, reqs>>

\* Promise.all resolves: the merge loop, then saveRawCSV up to the written file,
\* or the rejection that main().catch turns into process.exit(1)
MainSaveRaw ==
    /\ mpc = "awaitAll"
    /\ \A i \in RepoIdx : fpc[i] = "returned"
    /\ LET byRepo == allReleasesByRepo
           infos  == FlattenSeq([i \in RepoIdx |-> MapExtract(REPOS[i], byRepo[i])])
       IN  /\ allReleaseInfo' = infos
           /\ IF \E j \in DOMAIN infos : FormatThrows(infos[j])
              THEN /\ mpc' = "failed"
                   /\ UNCHANGED rawCsv
              ELSE /\ mpc' = "rawSaved"
                   /\ rawCsv' = [written |-> TRUE, rows |-> RawCsvRows(infos)]
    /\ UNCHANGED <<served, requests, fpc, page, releases, errlog, completed, statsCsv, call, reqs>>

\* makeStats and saveStatsCSV after the table: the statistics file is written
MainSaveStats ==
    /\ mpc = "rawSaved"
    /\ statsCsv' = [written |-> TRUE, by |-> "release-analyze",
                    rows |-> saveStatsCSV(makeStats(allReleaseInfo))]
    /\ mpc' = "done"
    /\ UNCHANGED <<served, requests, fpc, page, releases, errlog, completed,
                   allReleaseInfo, rawCsv, call, reqs>>

----------------------------------------------------------------------------
(* The sequential strategy (main and fetchAllReleases of the earlier script), as a
   function of the upstream's answers: resp[r][k] answers the request for page k
   of repository r *)

RECURSIVE FetchLoopSeq(_, _, _)
FetchLoopSeq(resp, p, acc) ==
    IF p > Len(resp) THEN acc
    ELSE IF resp[p] = "fail" THEN acc
    ELSE IF Len(PageBody(resp[p], p)) = 0 THEN acc
    ELSE FetchLoopSeq(resp, p + 1, acc \o PageBody(resp[p], p))

fetchAllReleasesSeq(resp) == FetchLoopSeq(resp, 1, <<>>)

RECURSIVE MainLoopSeq(_, _, _)
MainLoopSeq(resp, i, acc) ==
    IF i > Len(REPOS) THEN acc
    ELSE MainLoopSeq(resp, i + 1, acc \o MapExtract(REPOS[i], fetchAllReleasesSeq(resp[i])))

SequentialMain(resp) == MainLoopSeq(resp, 1, <<>>)

----------------------------------------------------------------------------
(* Specification of an ingestion run *)

NoCall == [fn |-> "none", variant |-> "none", year |-> <<>>, result |-> <<>>]

Init ==
    /\ served = [i \in RepoIdx |-> <<>>]
    /\ requests = [i \in RepoIdx |-> <<>>]
    /\ fpc = [i \in RepoIdx |-> "idle"]
    /\ page = [i \in RepoIdx |-> 0]
    /\ releases = [i \in RepoIdx |-> <<>>]
    /\ errlog = <<>>
    /\ completed = <<>>
    /\ mpc = "start"
    /\ allReleaseInfo = <<>>
    /\ rawCsv = NoFile
    /\ statsCsv = NoStats
    /\ call = NoCall
    /\ reqs = [id \in 1..MaxRequests |-> [st |-> "none", doc |-> <<>>]]

Next ==
    \/ MainStart
    \/ \E i \in RepoIdx : \E kind \in PageKinds : ResponsePage(i, kind)
    \/ \E i \in RepoIdx : ResponseError(i)
    \/ MainSaveRaw
    \/ MainSaveStats

Spec == Init /\ [][Next]_vars

\* the request in flight of repository i is answered, with a page or an error
Answered(i) == (\E kind \in PageKinds : ResponsePage(i, kind)) \/ ResponseError(i)

\* the continuation of main after Promise.all is ready to run
SaveRawReady == mpc = "awaitAll" /\ \A i \in RepoIdx : fpc[i] = "returned"

\* the continuation of main after saveRawCSV is ready to run
SaveStatsReady == mpc = "rawSaved"

\* the run under the assumptions that every request in flight is answered in the
\* end and that the event loop runs every continuation that is ready. The weak
\* fairness of the two continuations of main is written out, with the condition
\* under which each is enabled in the place of ENABLED.
FairSpec ==
    /\ Spec
    /\ WF_vars(MainStart)
    /\ \A i \in RepoIdx : WF_vars(Answered(i))
    /\ ([]<>~SaveRawReady \/ []<><<MainSaveRaw>>_vars)
    /\ ([]<>~SaveStatsReady \/ []<><<MainSaveStats>>_vars)

----------------------------------------------------------------------------
(* The table as the stats side reads it *)

\* releases an upstream can list: a Sunday, a Wednesday and a Tuesday of January
\* 2023, a Wednesday noon, a Friday one minute before noon, a Saturday of 2022 and
\* a date of the year 999
MenuReleases ==
    LET on(y, m, d, min) == [y |-> y, m |-> m, d |-> d, min |-> min]
    IN  << GithubRelease(1, on(2023, 1, 1, 0), on(2023, 1, 1, 0), FALSE, FALSE,
                         Some("v1"), Author("alice"), Some("first"), Assets(<<"a.zip">>)),
           GithubRelease(2, on(2023, 1, 3, 0), on(2023, 1, 4, 0), FALSE, FALSE,
                         Null, NoAuthor, Null, Assets(<<>>)),
           GithubRelease(3, on(2023, 1, 10, 0), on(2023, 1, 10, 0), FALSE, TRUE,
                         Some("v2-rc"), NoAuthor, Null, Assets(<<"a.zip", "b.tgz">>)),
           GithubRelease(4, on(2023, 1, 4, 0), on(2023, 1, 4, 720), TRUE, TRUE,
                         Null, Author("bob"), Null, Assets(<<>>)),
           GithubRelease(5, on(2023, 2, 3, 0), on(2023, 2, 3, 719), TRUE, FALSE,
                         Null, NoAuthor, Some("wip"), Assets(<<>>)),
           GithubRelease(6, on(2022, 12, 30, 0), on(2022, 12, 31, 0), FALSE, FALSE,
                         Some("v0"), Author("bob"), Null, Assets(<<"c.zip">>)),
           GithubRelease(7, on(999, 11, 15, 0), on(999, 11, 15, 0), FALSE, FALSE,
                         Null, Author("alice"), Some("old"), Assets(<<>>)) >>

\* the rows saveRawCSV writes for them
TableRows ==
    { CsvRow(RawRecord(extractReleaseInfo(REPOS[i], MenuReleases[n]))) :
          i \in RepoIdx, n \in DOMAIN MenuReleases }

\* the year arguments: years of the menu, a year no release has, and the empty
\* text the dashboards start with (useState(""))
YearArgs ==
    { <<"2", "0", "2", "3">>, <<"2", "0", "2", "2">>, <<"9", "9", "9">>,
      <<"2", "0", "2", "4">>, <<>> }

WEEKDAYS == <<"Monday", "Tuesday", "Wednesday", "Thursday", "Friday">>

IsWorkdayRow(row) == row.published_weekday \in Range(WEEKDAYS)

\* loadRawReleases: the rows of the file, the weekend rows left out
loadRawReleases(rows) == Filter(rows, IsWorkdayRow)

NotWeekendRow(d) == d.published_weekday # "Saturday" /\ d.published_weekday # "Sunday"

\* excludeWeekend of the second dashboard
excludeWeekend(data) == Filter(data, NotWeekendRow)

\* normalizeRow over the parsed file: the dashboards keep every row
normalizeRows(rows) == rows

----------------------------------------------------------------------------
(* Objects used as maps: byYear, byMonth, byDay *)

\* a property key that is an array index: the canonical text of an integer
\* (texts of more than 9 digits do not occur in the model)
IsArrayIndex(k) ==
    /\ Len(k) >= 1
    /\ Len(k) <= 9
    /\ \A i \in DOMAIN k : k[i] \in Range(Digits)
    /\ Len(k) > 1 => k[1] # "0"

IndexKeyBefore(a, b) == StrToNum(a.key) < StrToNum(b.key)

\* Object.values: the array-index keys in ascending numeric order, then the other
\* keys in the order in which they were set. Keys that are not texts of digits
\* (weekday names) are never array indices.
ObjectValues(entries, digitKeys) ==
    IF ~digitKeys THEN entries
    ELSE LET IsIdx(e) == IsArrayIndex(e.key)
             NotIdx(e) == ~IsArrayIndex(e.key)
         IN  SortBy(Filter(entries, IsIdx), IndexKeyBefore) \o Filter(entries, NotIdx)

\* by[key], or "none" when the key was never set
Lookup(entries, k) ==
    IF \E n \in DOMAIN entries : entries[n].key = k
    THEN (CHOOSE e \in Range(entries) : e.key = k).count
    ELSE -1

----------------------------------------------------------------------------
(* The aggregation functions *)

HasYear(d) == d.published_year # <<>>

YearOf(d) == d.published_year

YearEntryBefore(a, b) == TextLess(a.year, b.year)

YearEntries(data) ==
    LET withYear == Filter(data, HasYear)
        groups   == GroupCount([j \in DOMAIN withYear |-> YearOf(withYear[j])])
        values   == ObjectValues(groups, TRUE)
    IN  [n \in DOMAIN values |-> [year |-> values[n].key, count |-> values[n].count]]

\* getYearStats of the stats service
getYearStats(data) == SortBy(YearEntries(data), YearEntryBefore)

\* getYearStats of the first dashboard: Object.values(byYear), not sorted
getYearStatsDashboard(data) == YearEntries(data)

\* getYearStats of the second dashboard
getYearStatsWorkday(data) == SortBy(YearEntries(excludeWeekend(data)), YearEntryBefore)

\* d.published_month.padStart(2, "0")
MonthKeyUnpadded(d) == d.published_month

MonthKey(d) == padStart2(d.published_month)

\* getMonthStats of the stats service
getMonthStats(data, year) ==
    LET OfYear(d) == d.published_year = year
        rows      == Filter(data, OfYear)
        byMonth   == GroupCount([j \in DOMAIN rows |-> MonthKey(rows[j])])
    IN  [i \in 1..12 |->
            LET m == padStart2(NumToString(i))
            IN  IF Lookup(byMonth, m) > 0
                THEN [month |-> m, count |-> Lookup(byMonth, m)]
                ELSE [month |-> m, count |-> 0]]

\* getMonthStats of the first dashboard: the same text
getMonthStatsDashboard(data, year) == getMonthStats(data, year)

\* getMonthStats of the second dashboard
getMonthStatsWorkday(data, year) == getMonthStats(excludeWeekend(data), year)

HasWeekday(d) == d.published_weekday # ""

\* order.indexOf(weekday)
IndexOf(order, x) ==
    IF \E i \in DOMAIN order : order[i] = x
    THEN (CHOOSE i \in DOMAIN order : order[i] = x /\ \A j \in 1..(i - 1) : order[j] # x) - 1
    ELSE -1

DayEntries(data) ==
    LET withDay == Filter(data, HasWeekday)
        groups  == ObjectValues(GroupCount([j \in DOMAIN withDay |-> withDay[j].published_weekday]), FALSE)
    IN  [n \in DOMAIN groups |-> [weekday |-> groups[n].key, count |-> groups[n].count]]

\* getWeekdayStats of the stats service: the days that occur, in the order of order
getWeekdayStats(data) ==
    LET order == <<"Monday", "Tuesday", "Wednesday", "Thursday", "Friday">>
        Before(a, b) == IndexOf(order, a.weekday) < IndexOf(order, b.weekday)
    IN  SortBy(DayEntries(data), Before)

\* getWeekdayStats of the first dashboard
getWeekdayStatsDashboard(data) ==
    LET order == <<"Monday", "Tuesday", "Wednesday", "Thursday", "Friday", "Saturday", "Sunday">>
        Before(a, b) == IndexOf(order, a.weekday) < IndexOf(order, b.weekday)
    IN  SortBy(DayEntries(data), Before)

\* getWeekdayStats of the second dashboard: order.map(day => byDay[day] || zero)
getWeekdayStatsWorkday(data) ==
    LET order == <<"Monday", "Tuesday", "Wednesday", "Thursday", "Friday">>
        byDay == DayEntries(excludeWeekend(data))
    IN  [i \in DOMAIN order |->
            IF \E n \in DOMAIN byDay : byDay[n].weekday = order[i]
            THEN CHOOSE e \in Range(byDay) : e.weekday = order[i]
            ELSE [weekday |-> order[i], count |-> 0]]

\* a variant that tests is_prerelease before is_draft
ReleaseTypePrereleaseFirst(d) ==
    IF d.is_prerelease = "true" THEN "Prerelease"
    ELSE IF d.is_draft = "true" THEN "Draft"
    ELSE "Release"

\* the counter one record increments
ReleaseTypeOf(d) ==
    IF d.is_draft = "true" THEN "Draft"
    ELSE IF d.is_prerelease = "true" THEN "Prerelease"
    ELSE "Release"

getReleaseTypeStats(data) ==
    LET N(t) == Cardinality({j \in DOMAIN data : ReleaseTypeOf(data[j]) = t})
    IN  << [type |-> "Draft", count |-> N("Draft")],
           [type |-> "Prerelease", count |-> N("Prerelease")],
           [type |-> "Release", count |-> N("Release")] >>

\* Math.floor(num / den)
MathFloor(num, den) == num \div den

\* Math.round(num / den) for den > 0: the nearest integer, a half rounds up
MathRound(num, den) == (2 * num + den) \div (2 * den)

\* a variant that divides the sum of the gaps by the number of timestamps
GapCountPlusOne(n) == n

\* the number of gaps between n timestamps: publishedDates.length - 1
GapCount(n) == n - 1

HasPublishedAt(d) == d.published_at # NoDate

NumBefore(a, b) == a < b

\* getAverageReleaseInterval of the stats service
getAverageReleaseInterval(data) ==
    LET withDate == Filter(data, HasPublishedAt)
        publishedDates ==
            SortBy([j \in DOMAIN withDate |-> getTime(withDate[j].published_at)], NumBefore)
        n   == Len(publishedDates)
        sum == SeqSum([i \in 1..(n - 1) |-> publishedDates[i + 1] - publishedDates[i]])
    IN  IF n < 2 THEN 0
        ELSE MathRound(sum, GapCount(n) * MIN_PER_DAY)

\* getAverageReleaseInterval of the first dashboard: the same text
getAverageReleaseIntervalDashboard(data) == getAverageReleaseInterval(data)

\* getAverageReleaseInterval of the second dashboard
getAverageReleaseIntervalWorkday(data) == getAverageReleaseInterval(excludeWeekend(data))

\* (a, b) => b.count - a.count: a goes before b when its count is larger
CountAscending(a, b) == a.count < b.count

CountDescending(a, b) == a.count > b.count

\* .slice(0, 3) hands the whole list back
SliceAll(s) == s

\* .slice(0, 3)
Slice3(s) == SubSeq(s, 1, IF Len(s) < 3 THEN Len(s) ELSE 3)

HasMonth(d) == d.published_month # <<>>

\* getAllTimeMonthTop3 of the stats service: the months counted over all years,
\* Object.values of the counts, a stable sort by falling count, the first three
getAllTimeMonthTop3(data) ==
    LET rows    == Filter(data, HasMonth)
        byMonth == GroupCount([j \in DOMAIN rows |-> MonthKey(rows[j])])
        values  == ObjectValues(byMonth, TRUE)
        sorted  == SortBy(values, CountDescending)
    IN  [n \in DOMAIN Slice3(sorted) |->
            [month |-> Slice3(sorted)[n].key, count |-> Slice3(sorted)[n].count]]

\* getAllTimeMonthTop3 of the first dashboard: the same text
getAllTimeMonthTop3Dashboard(data) == getAllTimeMonthTop3(data)

\* getAllTimeMonthTop3 of the second dashboard
getAllTimeMonthTop3Workday(data) == getAllTimeMonthTop3(excludeWeekend(data))

----------------------------------------------------------------------------
(* Specification of the stats side: a table left by an ingestion run, then
   aggregation calls on it by the stats service ("server"), the first dashboard
   ("dashboard") and the second dashboard ("workday") *)

Variants == {"server", "dashboard", "workday"}

\* the collection a variant hands to its aggregation functions
InputOf(variant) ==
    IF variant = "server" THEN loadRawReleases(rawCsv.rows) ELSE normalizeRows(rawCsv.rows)

RowBefore(a, b) ==
    IF a.repo # b.repo THEN RepoLess(a.repo, b.repo)
    ELSE PublishedAtLess(a.published_at, b.published_at)

\* the table an ingestion run has left, taken row by row: saveRawCSV leaves the
\* rows sorted by (repo, published_at)
TableRow(row) ==
    /\ call = NoCall
    /\ Len(rawCsv.rows) < MaxRows
    /\ rawCsv.rows # <<>> => RowBefore(rawCsv.rows[Len(rawCsv.rows)], row)
    /\ rawCsv' = [written |-> TRUE, rows |-> Append(rawCsv.rows, row)]
    /\ UNCHANGED <<pipeVars, call, reqs>>

\* an ingestion run that fetched no release leaves a table without rows
TableEmpty ==
    /\ ~rawCsv.written
    /\ rawCsv' = [written |-> TRUE, rows |-> <<>>]
    /\ UNCHANGED <<pipeVars, call, reqs>>

\* one aggregation call on the written table, run to its result
Called(fn, variant, year, result) ==
    /\ rawCsv.written
    /\ call = NoCall
    /\ call' = [fn |-> fn, variant |-> variant, year |-> year, result |-> result]
    /\ UNCHANGED <<pipeVars, rawCsv, reqs>>

CallYearStats(variant) ==
    Called("getYearStats", variant, <<>>,
           CASE variant = "server"    -> getYearStats(InputOf(variant))
             [] variant = "dashboard" -> getYearStatsDashboard(InputOf(variant))
             [] variant = "workday"   -> getYearStatsWorkday(InputOf(variant)))

CallMonthStats(variant, year) ==
    Called("getMonthStats", variant, year,
           CASE variant = "server"    -> getMonthStats(InputOf(variant), year)
             [] variant = "dashboard" -> getMonthStatsDashboard(InputOf(variant), year)
             [] variant = "workday"   -> getMonthStatsWorkday(InputOf(variant), year))

CallWeekdayStats(variant) ==
    Called("getWeekdayStats", variant, <<>>,
           CASE variant = "server"    -> getWeekdayStats(InputOf(variant))
             [] variant = "dashboard" -> getWeekdayStatsDashboard(InputOf(variant))
             [] variant = "workday"   -> getWeekdayStatsWorkday(InputOf(variant)))

CallReleaseTypeStats(variant) ==
    Called("getReleaseTypeStats", variant, <<>>,
           CASE variant = "server"    -> getReleaseTypeStats(InputOf(variant))
             [] variant = "dashboard" -> getReleaseTypeStats(InputOf(variant))
             [] variant = "workday"   -> getReleaseTypeStats(excludeWeekend(InputOf(variant))))

CallAverageReleaseInterval(variant) ==
    Called("getAverageReleaseInterval", variant, <<>>,
           CASE variant = "server"    -> getAverageReleaseInterval(InputOf(variant))
             [] variant = "dashboard" -> getAverageReleaseIntervalDashboard(InputOf(variant))
             [] variant = "workday"   -> getAverageReleaseIntervalWorkday(InputOf(variant)))

CallAllTimeMonthTop3(variant) ==
    Called("getAllTimeMonthTop3", variant, <<>>,
           CASE variant = "server"    -> getAllTimeMonthTop3(InputOf(variant))
             [] variant = "dashboard" -> getAllTimeMonthTop3Dashboard(InputOf(variant))
             [] variant = "workday"   -> getAllTimeMonthTop3Workday(InputOf(variant)))

\* the call returns its result to its caller
Respond ==
    /\ call # NoCall
    /\ call' = NoCall
    /\ UNCHANGED <<pipeVars, rawCsv, reqs>>

StatsNext ==
    \/ TableEmpty
    \/ \E row \in TableRows : TableRow(row)
    \/ Respond
    \/ \E variant \in Variants : CallYearStats(variant)
    \/ \E variant \in Variants : \E year \in YearArgs : CallMonthStats(variant, year)
    \/ \E variant \in Variants : CallWeekdayStats(variant)
    \/ \E variant \in Variants : CallReleaseTypeStats(variant)
    \/ \E variant \in Variants : CallAverageReleaseInterval(variant)
    \/ \E variant \in Variants : CallAllTimeMonthTop3(variant)

StatsSpec == Init /\ [][StatsNext]_vars

----------------------------------------------------------------------------
(* Specification of the stats service answering requests on a written table *)

\* a sort of the years by their number
YearNumberBefore(a, b) == StrToNum(a) < StrToNum(b)

\* (a, b) => a.localeCompare(b)
YearTextBefore(a, b) == TextLess(a, b)

\* Array.from(new Set(data.map(d => d.published_year))).filter(Boolean).sort(...)
allYearsOf(data) ==
    LET distinct == GroupCount([j \in DOMAIN data |-> data[j].published_year])
        years    == [n \in DOMAIN distinct |-> distinct[n].key]
        NonEmpty(y) == y # <<>>
    IN  SortBy(Filter(years, NonEmpty), YearTextBefore)

\* Object.fromEntries(allYears.map(y => [y, getMonthStats(data, y)])): the
\* properties of the object, in property order
monthStatsOf(data) ==
    LET allYears == allYearsOf(data)
    IN  ObjectValues([n \in DOMAIN allYears |->
                         [key |-> allYears[n], value |-> getMonthStats(data, allYears[n])]],
                     TRUE)

\* getDashboardStats: the document computed from the file as it is read now
getDashboardStats(rows) ==
    LET data == loadRawReleases(rows)
    IN  [allYears           |-> allYearsOf(data),
         yearStats          |-> getYearStats(data),
         monthStats         |-> monthStatsOf(data),
         weekdayStats       |-> getWeekdayStats(data),
         releaseTypeStats   |-> getReleaseTypeStats(data),
         top3Months         |-> getAllTimeMonthTop3(data),
         avgReleaseInterval |-> getAverageReleaseInterval(data)]

Requests == 1..MaxRequests

NoRequest == [st |-> "none", doc |-> <<>>]

\* the table is left by the ingestion run before the service is asked
ServeTableRow(row) ==
    /\ \A id \in Requests : reqs[id].st = "none"
    /\ Len(rawCsv.rows) < MaxServedRows
    /\ TableRow(row)

\* GET /api/dashboard arrives: the requests are numbered in the order of arrival
Arrive(id) ==
    /\ rawCsv.written
    /\ reqs[id].st = "none"
    /\ \A other \in Requests : other < id => reqs[other].st # "none"
    /\ reqs' = [reqs EXCEPT ![id] = [st |-> "pending", doc |-> <<>>]]
    /\ UNCHANGED <<pipeVars, rawCsv, call>>

\* a variant whose loadRawReleases saves the filtered rows back to the file
HandleRequestRewriting(id) ==
    /\ reqs[id].st = "pending"
    /\ reqs' = [reqs EXCEPT ![id] = [st |-> "replied", doc |-> getDashboardStats(rawCsv.rows)]]
    /\ rawCsv' = [rawCsv EXCEPT !.rows = loadRawReleases(@)]
    /\ UNCHANGED <<pipeVars, call>>

\* getDashboard: getDashboardStats() and reply.send(stats), without an await
\* between them
HandleRequest(id) ==
    /\ reqs[id].st = "pending"
    /\ reqs' = [reqs EXCEPT ![id] = [st |-> "replied", doc |-> getDashboardStats(rawCsv.rows)]]
    /\ UNCHANGED <<pipeVars, rawCsv, call>>

ServeNext ==
    \/ TableEmpty
    \/ \E row \in TableRows : ServeTableRow(row)
    \/ \E id \in Requests : Arrive(id)
    \/ \E id \in Requests : HandleRequest(id)

ServeSpec == Init /\ [][ServeNext]_vars

----------------------------------------------------------------------------
(* Specification of the statistics file as a function of the collected records:
   the records come in any order, then one of the scripts writes the file *)

\* the scripts that write release-stats.csv: the ingestion script, the earlier
\* script, and main beside the controller
Scripts == {"release-analyze", "part_001", "controller"}

\* the rows a script writes for the records infos
StatRowsOf(by, infos) ==
    CASE by = "release-analyze" -> saveStatsCSV(makeStats(infos))
      [] by = "part_001"        -> saveStatsCSV(makeStatsCreated(infos))
      [] by = "controller"      -> StatRowsUnsorted(makeStatsAll(infos))

\* the releases the records are made of: a Sunday, two of one Wednesday, a
\* Tuesday of the week after, and one of the year 999
StatMenu == {1, 2, 3, 4, 7}

StatInfos ==
    { extractReleaseInfo(REPOS[i], MenuReleases[n]) : i \in RepoIdx, n \in StatMenu }

\* allReleaseInfo.push / concat: one more record
Collect(info) ==
    /\ ~statsCsv.written
    /\ Len(allReleaseInfo) < MaxInfos
    /\ \A j \in DOMAIN allReleaseInfo : allReleaseInfo[j] # info
    /\ allReleaseInfo' = Append(allReleaseInfo, info)
    /\ UNCHANGED <<served, requests, fpc, page, releases, errlog, completed, mpc,
                   rawCsv, statsCsv, call, reqs>>

\* makeStats and the writing of the statistics file
WriteStats(by) ==
    /\ ~statsCsv.written
    /\ statsCsv' = [written |-> TRUE, by |-> by, rows |-> StatRowsOf(by, allReleaseInfo)]
    /\ UNCHANGED <<served, requests, fpc, page, releases, errlog, completed, mpc,
                   allReleaseInfo, rawCsv, call, reqs>>

StatsFileNext ==
    \/ \E info \in StatInfos : Collect(info)
    \/ \E by \in Scripts : WriteStats(by)

StatsFileSpec == Init /\ [][StatsFileNext]_vars

----------------------------------------------------------------------------
(* Properties of an ingestion run *)

IsPage(o) == o \in {"short", "full", "draft"}

\* the number of non-empty pages that precede the first empty page or failure
RECURSIVE LeadingPages(_)
LeadingPages(resp) ==
    IF resp = <<>> \/ ~IsPage(Head(resp)) THEN 0 ELSE 1 + LeadingPages(Tail(resp))

\* pages 1..n of the answers resp, one after the other
PagesConcat(resp, n) == FlattenSeq([k \in 1..n |-> PageBody(resp[k], k)])

\* only the last answer to a repository is an empty page or a failure
EndsAtFirstStop(i) ==
    \A k \in 1..(Len(served[i]) - 1) : IsPage(served[i][k])

\* the repository's pagination met no failure
NoFailure(i) == \A k \in DOMAIN served[i] : served[i][k] # "fail"

AllFetched == FlattenSeq([i \in RepoIdx |-> MapExtract(REPOS[i], releases[i])])

\* C1: while no request of a repository fails, its requests are pages 1, 2, 3, ...
\* without gap or repeat, one request per answered page plus the one in flight;
\* its records are the pages before the first empty page, in page order; a short
\* page does not end the pagination; the empty page is the last answer, it was
\* asked for right after the last non-empty page, and nothing is asked after it.
C1_Pagination ==
    \A i \in RepoIdx :
        (fpc[i] # "idle" /\ NoFailure(i)) =>
            /\ requests[i] = [k \in 1..Len(requests[i]) |-> k]
            /\ releases[i] = PagesConcat(served[i], LeadingPages(served[i]))
            /\ EndsAtFirstStop(i)
            /\ fpc[i] = "awaiting" =>
                   /\ Len(requests[i]) = Len(served[i]) + 1
                   /\ LeadingPages(served[i]) = Len(served[i])
            /\ fpc[i] = "returned" =>
                   /\ served[i][Len(served[i])] = "empty"
                   /\ Len(requests[i]) = Len(served[i])
                   /\ Len(requests[i]) = LeadingPages(served[i]) + 1

\* short, full, empty: three records (a short page of one, then a full page of
\* two) and three requests
C1_Witness ==
    \E i \in RepoIdx :
        /\ fpc[i] = "returned"
        /\ served[i] = <<"short", "full", "empty">>
        /\ requests[i] = <<1, 2, 3>>
        /\ Len(releases[i]) = 3

\* C2: when the request for page k fails, page k is the last page asked for (no
\* retry, no page k + 1), the call has returned the records of pages 1..k-1, the
\* failure is logged once, and main is not failed by it: main fails only on a
\* record whose published_at does not parse.
C2_FailureStops ==
    \A i \in RepoIdx :
        (\E k \in DOMAIN served[i] : served[i][k] = "fail") =>
            LET k == Len(served[i])
            IN  /\ served[i][k] = "fail"
                /\ EndsAtFirstStop(i)
                /\ requests[i] = [n \in 1..k |-> n]
                /\ fpc[i] = "returned"
                /\ releases[i] = PagesConcat(served[i], k - 1)
                /\ Cardinality({n \in DOMAIN errlog : errlog[n] = i}) = 1
                /\ mpc = "failed" =>
                       \E j \in DOMAIN allReleaseInfo : ~IsValidDate(allReleaseInfo[j].published_at)
                /\ mpc \in {"rawSaved", "done", "failed"} =>
                       \A j \in 1..Len(releases[i]) :
                           \E n \in DOMAIN allReleaseInfo :
                               allReleaseInfo[n] = extractReleaseInfo(REPOS[i], releases[i][j])

C2_Witness ==
    \E i \in RepoIdx :
        /\ served[i] = <<"full", "short", "fail">>
        /\ Len(releases[i]) = 3
        /\ mpc = "rawSaved"

\* C3: whatever the order in which the repositories' requests were answered and
\* their fetches returned, the merged collection holds each repository's records
\* once, in page order, repository after repository in the order of REPOS, and it
\* is the collection the sequential strategy builds from the same answers.
C3_MergeDeterministic ==
    mpc \in {"rawSaved", "done", "failed"} =>
        /\ allReleaseInfo = SequentialMain(served)
        /\ allReleaseInfo =
               FlattenSeq([i \in RepoIdx |->
                   MapExtract(REPOS[i], PagesConcat(served[i], LeadingPages(served[i])))])

\* the second repository returned first, and both have records
C3_Witness ==
    /\ mpc = "rawSaved"
    /\ completed = <<2, 1>>
    /\ Len(releases[1]) = 3
    /\ Len(releases[2]) = 2

\* the rows of the table and the merged records are the same records, each as often
SameRecords(rows, infos) ==
    /\ Len(rows) = Len(infos)
    /\ \A j \in DOMAIN infos :
           LET Is(x) == x.repo = infos[j].repo /\ x.release_id = infos[j].release_id
           IN  Count(rows, Is) = Count(infos, Is)

\* C4: once a request of some repository has failed, every repository that has
\* returned still holds exactly its own pages up to its own first empty or failed
\* page, main still merges all of them, main is failed only by a record whose
\* published_at does not parse, and otherwise the table is written with every
\* fetched record.
C4_FailureIsolated ==
    (\E f \in RepoIdx : ~NoFailure(f)) =>
        /\ \A i \in RepoIdx :
               /\ EndsAtFirstStop(i)
               /\ fpc[i] = "returned" =>
                      /\ ~IsPage(served[i][Len(served[i])])
                      /\ releases[i] = PagesConcat(served[i], Len(served[i]) - 1)
               /\ fpc[i] = "awaiting" => mpc = "awaitAll"
        /\ mpc \in {"rawSaved", "done", "failed"} =>
               /\ \A i \in RepoIdx : fpc[i] = "returned"
               /\ allReleaseInfo = AllFetched
        /\ mpc = "failed" =>
               /\ \E j \in DOMAIN allReleaseInfo : ~IsValidDate(allReleaseInfo[j].published_at)
        /\ mpc \in {"rawSaved", "done"} =>
               /\ rawCsv.written
               /\ SameRecords(rawCsv.rows, AllFetched)

\* the first repository failed on its second page, the other one went on for two
\* more pages, and the table holds all five records
C4_Witness ==
    /\ served[1] = <<"full", "fail">>
    /\ served[2] = <<"short", "full", "empty">>
    /\ completed = <<1, 2>>
    /\ mpc = "rawSaved"
    /\ Len(rawCsv.rows) = 5

----------------------------------------------------------------------------
(* Properties of the aggregation functions *)

\* the rows of the table that the calling variant counts: the dashboard counts
\* every row, the stats service and the second dashboard leave the weekend out
CountedIdx(variant) ==
    {j \in DOMAIN rawCsv.rows :
        \/ variant = "dashboard"
        \/ rawCsv.rows[j].published_weekday \notin {"Saturday", "Sunday"}}

TwoDigitMonths ==
    << <<"0", "1">>, <<"0", "2">>, <<"0", "3">>, <<"0", "4">>, <<"0", "5">>, <<"0", "6">>,
       <<"0", "7">>, <<"0", "8">>, <<"0", "9">>, <<"1", "0">>, <<"1", "1">>, <<"1", "2">> >>

CountsOf(result) == [n \in DOMAIN result |-> result[n].count]

\* C5: getMonthStats returns 12 entries, months "01".."12" in order, and the counts
\* sum to the number of counted records whose published_year is the year asked for.
C5_MonthStatsShape ==
    call.fn = "getMonthStats" =>
        /\ Len(call.result) = 12
        /\ \A i \in 1..12 : call.result[i].month = TwoDigitMonths[i]
        /\ SeqSum(CountsOf(call.result)) =
               Cardinality({j \in CountedIdx(call.variant) :
                               rawCsv.rows[j].published_year = call.year})

\* a call for 2023 on a table with a January, a February and a 2022 row
C5_Witness ==
    /\ call.fn = "getMonthStats"
    /\ call.year = <<"2", "0", "2", "3">>
    /\ call.result[1].count = 1
    /\ call.result[2].count = 1
    /\ call.result[12].count = 0
    /\ \E j \in DOMAIN rawCsv.rows : rawCsv.rows[j].published_year = <<"2", "0", "2", "2">>

\* C6: getReleaseTypeStats returns Draft, Prerelease, Release in that order; a
\* record with is_draft counts as Draft whatever is_prerelease says, otherwise one
\* with is_prerelease counts as Prerelease, otherwise it counts as Release; the
\* three counts sum to the number of records.
C6_ReleaseTypePartition ==
    call.fn = "getReleaseTypeStats" =>
        LET rows == rawCsv.rows
            I == CountedIdx(call.variant)
        IN  /\ Len(call.result) = 3
            /\ call.result[1].type = "Draft"
            /\ call.result[2].type = "Prerelease"
            /\ call.result[3].type = "Release"
            /\ call.result[1].count = Cardinality({j \in I : rows[j].is_draft = "true"})
            /\ call.result[2].count =
                   Cardinality({j \in I : rows[j].is_draft # "true" /\ rows[j].is_prerelease = "true"})
            /\ call.result[3].count =
                   Cardinality({j \in I : rows[j].is_draft # "true" /\ rows[j].is_prerelease # "true"})
            /\ SeqSum(CountsOf(call.result)) = Cardinality(I)

\* a record that is both a draft and a prerelease, beside a prerelease and a release
C6_Witness ==
    /\ call.fn = "getReleaseTypeStats"
    /\ call.result[1].count = 1
    /\ call.result[2].count = 1
    /\ call.result[3].count = 1
    /\ \E j \in CountedIdx(call.variant) :
           rawCsv.rows[j].is_draft = "true" /\ rawCsv.rows[j].is_prerelease = "true"

\* the timestamps of the counted rows
TimesOf(variant) == {getTime(rawCsv.rows[j].published_at) : j \in CountedIdx(variant)}

\* r is diff / one day rounded to the nearest integer, a half rounded up
NearestDays(r, diff) ==
    /\ 2 * r * MIN_PER_DAY <= 2 * diff + MIN_PER_DAY
    /\ 2 * diff + MIN_PER_DAY < 2 * (r + 1) * MIN_PER_DAY

\* C7: getAverageReleaseInterval returns 0 for no or one timestamp, and for two
\* timestamps d0 <= d1 it returns (d1 - d0) / one day, rounded.
C7_IntervalOfTwo ==
    call.fn = "getAverageReleaseInterval" =>
        LET I == CountedIdx(call.variant)
        IN  /\ Cardinality(I) <= 1 => call.result = 0
            /\ Cardinality(I) = 2 =>
                   \E d0, d1 \in TimesOf(call.variant) :
                       /\ d0 <= d1
                       /\ \A j \in I : getTime(rawCsv.rows[j].published_at) \in {d0, d1}
                       /\ Cardinality(TimesOf(call.variant)) = 2 => d0 # d1
                       /\ NearestDays(call.result, d1 - d0)

\* two timestamps half a day apart: one day
C7_Witness ==
    /\ call.fn = "getAverageReleaseInterval"
    /\ Cardinality(CountedIdx(call.variant)) = 2
    /\ \E d0, d1 \in TimesOf(call.variant) : d1 - d0 = 720
    /\ call.result = 1

\* the first dashboard is handed exactly three records, published on 2023-01-01,
\* 2023-01-04 and 2023-01-10 at midnight
ThreeJanuaryDates ==
    /\ call.fn = "getAverageReleaseInterval"
    /\ call.variant = "dashboard"
    /\ Len(rawCsv.rows) = 3
    /\ {rawCsv.rows[j].published_at : j \in DOMAIN rawCsv.rows} =
           { [y |-> 2023, m |-> 1, d |-> 1,  min |-> 0],
             [y |-> 2023, m |-> 1, d |-> 4,  min |-> 0],
             [y |-> 2023, m |-> 1, d |-> 10, min |-> 0] }

\* C8 as stated: for these three records the average interval is 7 days.
C8_SevenDays == ThreeJanuaryDates => call.result = 7

\* C8 as amended: the gaps are 3 and 6 days, their mean 4.5 days, rounded 5.
C8_FiveDays == ThreeJanuaryDates => call.result = 5

C8_Witness == ThreeJanuaryDates /\ call.result = 5

\* C9 as stated: getYearStats of every variant returns one entry per distinct
\* non-empty published_year of the counted records, with the number of records of
\* that year, ascending by year as text.
C9_YearStatsTextSorted ==
    call.fn = "getYearStats" =>
        LET rows  == rawCsv.rows
            I     == CountedIdx(call.variant)
            years == {rows[j].published_year : j \in I} \ {<<>>}
        IN  /\ Len(call.result) = Cardinality(years)
            /\ {call.result[n].year : n \in DOMAIN call.result} = years
            /\ \A n \in DOMAIN call.result :
                   call.result[n].count =
                       Cardinality({j \in I : rows[j].published_year = call.result[n].year})
            /\ \A n \in DOMAIN call.result : \A k \in DOMAIN call.result :
                   n < k => TextLess(call.result[n].year, call.result[k].year)

\* C10 as stated: getWeekdayStats of every variant returns one entry for every day
\* of its weekday sequence, in that order, with the number of counted records of
\* that day, 0 for a day without records.
C10_WeekdayStatsZeroFilled ==
    call.fn = "getWeekdayStats" =>
        LET rows == rawCsv.rows
            I    == CountedIdx(call.variant)
            seq  == IF call.variant = "dashboard"
                    THEN <<"Monday", "Tuesday", "Wednesday", "Thursday", "Friday", "Saturday", "Sunday">>
                    ELSE <<"Monday", "Tuesday", "Wednesday", "Thursday", "Friday">>
        IN  /\ Len(call.result) = Len(seq)
            /\ \A i \in DOMAIN seq :
                   /\ call.result[i].weekday = seq[i]
                   /\ call.result[i].count =
                          Cardinality({j \in I : rows[j].published_weekday = seq[i]})

\* the months of the counted rows, as two-digit texts, and what each counts
CountedMonths(variant) ==
    {padStart2(rawCsv.rows[j].published_month) : j \in CountedIdx(variant)} \ {<<>>}

MonthCount(variant, month) ==
    Cardinality({j \in CountedIdx(variant) :
                    padStart2(rawCsv.rows[j].published_month) = month})

\* the row in which a month appears first among the counted rows
FirstAppearance(variant, month) ==
    CHOOSE j \in CountedIdx(variant) :
        /\ padStart2(rawCsv.rows[j].published_month) = month
        /\ \A i \in CountedIdx(variant) :
               padStart2(rawCsv.rows[i].published_month) = month => j <= i

\* C11 as stated: getAllTimeMonthTop3 of every variant returns exactly 3 entries,
\* whatever the number of distinct months of the counted records.
C11_ExactlyThree ==
    call.fn = "getAllTimeMonthTop3" => Len(call.result) = 3

\* C11 as amended: getAllTimeMonthTop3 returns one entry per distinct month of the
\* counted records up to 3 of them: 3 entries when there are three months or more,
\* as many entries as months when there are fewer, none for an empty collection.
C11_AtMostThree ==
    call.fn = "getAllTimeMonthTop3" =>
        LET months == CountedMonths(call.variant)
        IN  /\ Len(call.result) = IF Cardinality(months) < 3 THEN Cardinality(months) ELSE 3
            /\ \A n \in DOMAIN call.result : call.result[n].month \in months
            /\ \A n \in DOMAIN call.result : \A k \in DOMAIN call.result :
                   n # k => call.result[n].month # call.result[k].month

\* a call on a table whose counted rows have two distinct months returns two entries
C11_Witness ==
    /\ call.fn = "getAllTimeMonthTop3"
    /\ Cardinality(CountedMonths(call.variant)) = 2
    /\ Len(call.result) = 2

\* a call on a table with four distinct months: one month is left out
C11_Truncated ==
    /\ call.fn = "getAllTimeMonthTop3"
    /\ Cardinality(CountedMonths(call.variant)) = 4
    /\ Len(call.result) = 3

\* the months the result leaves out
LeftOut(variant, result) ==
    CountedMonths(variant) \ {result[n].month : n \in DOMAIN result}

Top3CountsRanked ==
    /\ \A n \in DOMAIN call.result :
           call.result[n].count = MonthCount(call.variant, call.result[n].month)
    /\ \A n \in DOMAIN call.result : \A k \in DOMAIN call.result :
           n < k => call.result[n].count >= call.result[k].count
    /\ \A n \in DOMAIN call.result : \A m \in LeftOut(call.variant, call.result) :
           call.result[n].count >= MonthCount(call.variant, m)

\* C20 as stated: the entries of getAllTimeMonthTop3 are in descending order of
\* count, every returned month counts at least as much as every month left out,
\* and months of equal count are in the order of their first appearance in the
\* input collection.
C20_TiesByFirstAppearance ==
    call.fn = "getAllTimeMonthTop3" =>
        /\ Top3CountsRanked
        /\ \A n \in DOMAIN call.result : \A k \in DOMAIN call.result :
               (n < k /\ call.result[n].count = call.result[k].count) =>
                   FirstAppearance(call.variant, call.result[n].month)
                       < FirstAppearance(call.variant, call.result[k].month)

\* the order Object.values gives months of equal count: "10", "11" and "12" are
\* array indices and come first, ascending; the other months follow in the order
\* of their first appearance
TieBefore(variant, a, b) ==
    IF IsArrayIndex(a) /\ IsArrayIndex(b) THEN StrToNum(a) < StrToNum(b)
    ELSE IF IsArrayIndex(a) THEN TRUE
    ELSE IF IsArrayIndex(b) THEN FALSE
    ELSE FirstAppearance(variant, a) < FirstAppearance(variant, b)

\* C20 as amended: descending order of count, every returned month counts at least
\* as much as every month left out, and months of equal count are in the order of
\* Object.values: October, November and December first, in calendar order, then
\* the other months in the order of their first appearance; a month left out with
\* the count of a returned month comes after it in that order.
C20_TiesByObjectOrder ==
    call.fn = "getAllTimeMonthTop3" =>
        /\ Top3CountsRanked
        /\ \A n \in DOMAIN call.result : \A k \in DOMAIN call.result :
               (n < k /\ call.result[n].count = call.result[k].count) =>
                   TieBefore(call.variant, call.result[n].month, call.result[k].month)
        /\ \A n \in DOMAIN call.result : \A m \in LeftOut(call.variant, call.result) :
               call.result[n].count = MonthCount(call.variant, m) =>
                   TieBefore(call.variant, call.result[n].month, m)

\* a tie between November and January where January appears first in the table
\* and November is returned first
C20_Witness ==
    /\ call.fn = "getAllTimeMonthTop3"
    /\ Len(call.result) >= 2
    /\ call.result[1].month = <<"1", "1">>
    /\ call.result[2].month = <<"0", "1">>
    /\ call.result[1].count = call.result[2].count
    /\ FirstAppearance(call.variant, <<"0", "1">>) < FirstAppearance(call.variant, <<"1", "1">>)

----------------------------------------------------------------------------
(* Properties of the table, of extractReleaseInfo and of the run as a whole *)

\* C12: the table saveRawCSV writes holds one row per fetched record, none dropped
\* and none twice, sorted ascending by repo and then by published_at as text,
\* whatever the order in which the records were fetched.
C12_TableSorted ==
    rawCsv.written =>
        /\ SameRecords(rawCsv.rows, AllFetched)
        /\ \A j \in DOMAIN rawCsv.rows : \A k \in DOMAIN rawCsv.rows :
               j < k =>
                   LET a == rawCsv.rows[j]
                       b == rawCsv.rows[k]
                   IN  /\ a.repo = b.repo \/ RepoLess(a.repo, b.repo)
                       /\ a.repo = b.repo => ~PublishedAtLess(b.published_at, a.published_at)

\* both repositories have records, the first one's pages list newer releases
\* first, and the table starts with the second repository's oldest release
C12_Witness ==
    /\ rawCsv.written
    /\ served[1] = <<"full", "short", "empty">>
    /\ served[2] = <<"short", "full", "empty">>
    /\ Len(rawCsv.rows) = 6
    /\ rawCsv.rows[1].repo = "daangn/seed-design"
    /\ rawCsv.rows[1].published_at = [y |-> 2023, m |-> 1, d |-> 1, min |-> 0]

\* C13 as stated: every row of the table has a published_month that is a two-digit
\* text "01".."12" and a published_weekday that is one of the seven weekday names.
C13_MonthTwoDigits ==
    rawCsv.written =>
        \A j \in DOMAIN rawCsv.rows :
            /\ rawCsv.rows[j].published_month \in Range(TwoDigitMonths)
            /\ rawCsv.rows[j].published_weekday \in Range(days)

\* some fetched record has a published_at that does not parse
SomeUnparsable ==
    \E i \in RepoIdx : \E j \in DOMAIN releases[i] : ~IsValidDate(releases[i][j].published_at)

\* C15: when a fetched record's published_at does not parse, the run ends in
\* failure as soon as main goes on from the fetches, and neither the table nor the
\* statistics file is ever written; a table that is written holds every fetched
\* record with its weekday, year and month.
C15_UnparsableAborts ==
    /\ SomeUnparsable =>
           /\ ~rawCsv.written
           /\ ~statsCsv.written
           /\ mpc \in {"awaitAll", "failed"}
           /\ (\A i \in RepoIdx : fpc[i] = "returned") /\ mpc # "awaitAll" => mpc = "failed"
    /\ mpc = "failed" => ~rawCsv.written /\ ~statsCsv.written
    /\ rawCsv.written =>
           /\ Len(rawCsv.rows) = Len(AllFetched)
           /\ \A j \in DOMAIN rawCsv.rows :
                  /\ rawCsv.rows[j].published_weekday \in Range(days)
                  /\ rawCsv.rows[j].published_year # <<>>
                  /\ rawCsv.rows[j].published_month # <<>>

\* a draft without published_at came after two published releases of the same
\* repository, the other repository has a release too: the run failed, no file
C15_Witness ==
    /\ mpc = "failed"
    /\ served[1] = <<"full", "draft", "empty">>
    /\ served[2] = <<"short", "empty">>
    /\ Len(allReleaseInfo) = 4
    /\ ~rawCsv.written
    /\ ~statsCsv.written

\* the fetched upstream records in the order of the merge, each with its repository
FetchedRaw ==
    FlattenSeq([i \in RepoIdx |->
        [j \in DOMAIN releases[i] |-> [repo |-> REPOS[i], raw |-> releases[i][j]]]])

\* C17: extractReleaseInfo gives a record for every upstream record whichever of
\* name, body and author are absent: an absent one becomes the empty text, a
\* present one is kept, draft and prerelease are passed through, assets_count is
\* the number of assets and assets_names the asset names in their order with ";"
\* between them.
C17_ExtractTotal ==
    mpc \in {"rawSaved", "done", "failed"} =>
        /\ Len(allReleaseInfo) = Len(FetchedRaw)
        /\ \A n \in DOMAIN FetchedRaw :
               LET raw  == FetchedRaw[n].raw
                   info == allReleaseInfo[n]
                   cnt  == Len(raw.assets)
               IN  /\ info.repo = FetchedRaw[n].repo
                   /\ info.release_id = raw.id
                   /\ info.release_name = IF raw.name.present THEN raw.name.value ELSE ""
                   /\ info.body = IF raw.body.present THEN raw.body.value ELSE ""
                   /\ info.author = IF raw.author.present THEN raw.author.value.login ELSE ""
                   /\ info.is_draft = raw.draft
                   /\ info.is_prerelease = raw.prerelease
                   /\ info.assets_count = cnt
                   /\ Len(info.assets_names) = IF cnt = 0 THEN 0 ELSE 2 * cnt - 1
                   /\ \A a \in 1..cnt : info.assets_names[2 * a - 1] = raw.assets[a].name
                   /\ \A a \in 1..(cnt - 1) : info.assets_names[2 * a] = ";"

\* the merge holds a record made from a release without name, author and body
\* and without assets, and one made from a release that has them all
C17_Witness ==
    /\ mpc = "done"
    /\ \E n \in DOMAIN allReleaseInfo :
           /\ allReleaseInfo[n].release_name = ""
           /\ allReleaseInfo[n].author = ""
           /\ allReleaseInfo[n].body = ""
           /\ allReleaseInfo[n].assets_names = <<>>
           /\ ~FetchedRaw[n].raw.name.present
           /\ ~FetchedRaw[n].raw.author.present
           /\ ~FetchedRaw[n].raw.body.present
    /\ \E n \in DOMAIN allReleaseInfo :
           /\ allReleaseInfo[n].release_name = "v2"
           /\ allReleaseInfo[n].author = "alice"
           /\ allReleaseInfo[n].body = "notes"
           /\ allReleaseInfo[n].assets_count = 2
           /\ allReleaseInfo[n].assets_names = <<"a.zip", ";", "b.tgz">>

\* C19: a repository has at most one request without answer at any time, none
\* once its fetch has returned, and every request after the first was issued for
\* the next page number after a non-empty page had answered the one before;
\* this holds for each repository while the other one is fetching too.
C19_OneInFlight ==
    \A i \in RepoIdx :
        /\ Len(requests[i]) - Len(served[i]) \in {0, 1}
        /\ fpc[i] = "awaiting" => Len(requests[i]) = Len(served[i]) + 1
        /\ fpc[i] = "returned" => Len(requests[i]) = Len(served[i])
        /\ \A k \in 2..Len(requests[i]) :
               /\ requests[i][k] = requests[i][k - 1] + 1
               /\ Len(served[i]) >= k - 1
               /\ IsPage(served[i][k - 1])

\* both repositories have a request in flight, for different pages
C19_Witness ==
    /\ fpc[1] = "awaiting"
    /\ fpc[2] = "awaiting"
    /\ requests[1] = <<1, 2, 3>>
    /\ served[1] = <<"full", "short">>
    /\ requests[2] = <<1, 2>>
    /\ served[2] = <<"draft">>

----------------------------------------------------------------------------
(* Properties of the statistics file *)

\* the records in another order
Permuted(infos, perm) == [j \in DOMAIN infos |-> infos[perm[j]]]

\* the rows are in ascending order of (repo, type, period), each as text
StatRowsAscending(rows) ==
    \A j \in DOMAIN rows : \A k \in DOMAIN rows :
        j < k =>
            LET a == rows[j]
                b == rows[k]
            IN  \/ RepoLess(a.repo, b.repo)
                \/ a.repo = b.repo /\ TypeLess(a.type, b.type)
                \/ a.repo = b.repo /\ a.type = b.type /\ PeriodLess(a.period, b.period)

\* the script writes the same rows for the records in every order
SameForEveryOrder(by) ==
    \A perm \in Permutations(DOMAIN allReleaseInfo) :
        StatRowsOf(by, Permuted(allReleaseInfo, perm)) = statsCsv.rows

\* C14 as stated: the rows of the statistics file are sorted by (repo, type,
\* period) as text and are the same for every order of the input records, for
\* every script that writes the file.
C14_StatsRowsSorted ==
    statsCsv.written =>
        /\ StatRowsAscending(statsCsv.rows)
        /\ SameForEveryOrder(statsCsv.by)

\* the same for the two scripts that sort before they write
StatsRowsSortedWhereSorted ==
    (statsCsv.written /\ statsCsv.by # "controller") =>
        /\ StatRowsAscending(statsCsv.rows)
        /\ SameForEveryOrder(statsCsv.by)

\* the ingestion script wrote the rows of three records of both repositories
StatsRowsSortedReached ==
    /\ statsCsv.written
    /\ statsCsv.by = "release-analyze"
    /\ Len(allReleaseInfo) = 3
    /\ Len(statsCsv.rows) >= 6
    /\ \E j \in DOMAIN statsCsv.rows : statsCsv.rows[j].count = 2
    /\ allReleaseInfo[1].repo = "daangn/stackflow"
    /\ allReleaseInfo[2].repo = "daangn/seed-design"

----------------------------------------------------------------------------
(* Properties of the stats service *)

\* every reply sent so far is the document of the table as it is
RepliesAgree ==
    LET replied == {id \in Requests : reqs[id].st = "replied"}
    IN  /\ \A id \in replied : \A other \in replied : reqs[other].doc = reqs[id].doc
        /\ replied # {} =>
               LET doc == getDashboardStats(rawCsv.rows)
               IN  \A id \in replied : reqs[id].doc = doc

\* a step of a request leaves the table as it was
RequestStepKeepsTable == (reqs' # reqs) => (rawCsv' = rawCsv)

\* C16: a stats request never changes the persisted table, and the requests
\* answered on an unchanged table, in whatever order they are handled, all get the
\* same document, the one a single request gets.
C16_ReadOnlyStateless == [][RequestStepKeepsTable]_vars /\ []RepliesAgree

\* the second request was answered while the first one is still waiting, on a
\* table with a weekend row and weekday rows
C16_Witness ==
    /\ reqs[1].st = "pending"
    /\ reqs[2].st = "replied"
    /\ Len(rawCsv.rows) = 3
    /\ \E j \in DOMAIN rawCsv.rows : rawCsv.rows[j].published_weekday = "Sunday"
    /\ Len(reqs[2].doc.top3Months) = 2
    /\ reqs[2].doc.releaseTypeStats # <<>>

----------------------------------------------------------------------------
(* Termination of the run *)

\* main has gone on from the fetches to saveRawCSV
ReachedSave == mpc \in {"rawSaved", "done", "failed"}

\* C18: when every request is answered in the end and the upstream has finitely
\* many non-empty pages, every fetchAllReleases call that is waiting returns in
\* the end, and the run gets to the point of writing the table.
C18_Terminates == <>((\A i \in RepoIdx : fpc[i] = "returned") /\ ReachedSave)

\* a run that got to the end after one repository used every page the upstream
\* has and the other one met an error
C18_Witness ==
    /\ mpc = "done"
    /\ Len(served[1]) = MaxPages + 1
    /\ served[1][MaxPages + 1] = "empty"
    /\ served[2] = <<"full", "fail">>

----------------------------------------------------------------------------
(* Agreement of the views of one document *)

\* the rows of the table that loadRawReleases keeps
LoadedIdx == {j \in DOMAIN rawCsv.rows :
                 rawCsv.rows[j].published_weekday \in
                     {"Monday", "Tuesday", "Wednesday", "Thursday", "Friday"}}

\* the views of the document doc agree
ViewsAgree(doc) ==
    /\ [n \in DOMAIN doc.yearStats |-> doc.yearStats[n].year] = doc.allYears
    /\ \A n \in DOMAIN doc.allYears : \A k \in DOMAIN doc.allYears :
           n < k => TextLess(doc.allYears[n], doc.allYears[k])
    /\ Len(doc.monthStats) = Len(doc.allYears)
    /\ {doc.monthStats[n].key : n \in DOMAIN doc.monthStats} = Range(doc.allYears)
    /\ \A n \in DOMAIN doc.monthStats :
           /\ Len(doc.monthStats[n].value) = 12
           /\ \E k \in DOMAIN doc.yearStats :
                  /\ doc.yearStats[k].year = doc.monthStats[n].key
                  /\ doc.yearStats[k].count = SeqSum(CountsOf(doc.monthStats[n].value))
    /\ SeqSum(CountsOf(doc.weekdayStats)) = Cardinality(LoadedIdx)
    /\ SeqSum(CountsOf(doc.releaseTypeStats)) = Cardinality(LoadedIdx)

\* C21: in every document getDashboardStats returns, the years of yearStats are
\* allYears in the same ascending order, the keys of monthStats are allYears, the
\* 12 counts of a year in monthStats sum to the year's count in yearStats, and
\* the counts of weekdayStats and of releaseTypeStats each sum to the number of
\* loaded workday records.
C21_ViewsAgree ==
    \A id \in Requests : reqs[id].st = "replied" => ViewsAgree(reqs[id].doc)

\* a document for a table with a weekday release of 999, a weekday release of
\* 2023 and a Sunday release: two years, "2023" before "999", two loaded records
C21_Witness ==
    \E id \in Requests :
        /\ reqs[id].st = "replied"
        /\ reqs[id].doc.allYears = << <<"2", "0", "2", "3">>, <<"9", "9", "9">> >>
        /\ Len(rawCsv.rows) = 3
        /\ Cardinality(LoadedIdx) = 2

----------------------------------------------------------------------------
(* The release-type flags from the upstream release to the stats service *)

\* the upstream release that row j of the table was written for
UpstreamOf(j) == MenuReleases[rawCsv.rows[j].release_id]

\* the loaded rows whose upstream release has the flags draft and prerelease
LoadedWithFlags(draft, prerelease) ==
    {j \in LoadedIdx : UpstreamOf(j).draft \in draft /\ UpstreamOf(j).prerelease \in prerelease}

\* C22: of the records saveRawCSV has written and loadRawReleases has read back,
\* the stats service counts as Draft those whose upstream draft flag is true, as
\* Prerelease those with draft false and prerelease true, and as Release those
\* with both flags false.
C22_FlagsRoundTrip ==
    (call.fn = "getReleaseTypeStats" /\ call.variant = "server") =>
        /\ call.result[1].type = "Draft"
        /\ call.result[1].count = Cardinality(LoadedWithFlags({TRUE}, BOOLEAN))
        /\ call.result[2].type = "Prerelease"
        /\ call.result[2].count = Cardinality(LoadedWithFlags({FALSE}, {TRUE}))
        /\ call.result[3].type = "Release"
        /\ call.result[3].count = Cardinality(LoadedWithFlags({FALSE}, {FALSE}))

\* the stats service counts a table with a draft that is also a prerelease, a
\* draft that is not, a prerelease and a plain release
C22_Witness ==
    /\ call.fn = "getReleaseTypeStats"
    /\ call.variant = "server"
    /\ call.result[1].count = 2
    /\ call.result[2].count = 1
    /\ call.result[3].count = 1
    /\ LoadedWithFlags({TRUE}, {TRUE}) # {}
    /\ LoadedWithFlags({TRUE}, {FALSE}) # {}

----------------------------------------------------------------------------
(* The weekend, as the ingestion script, the stats service and the second
   dashboard see it *)

\* the count the statistics file gives for the day and the repo of table row j
DailyCountOf(j) ==
    LET I == {n \in DOMAIN statsCsv.rows :
                 /\ statsCsv.rows[n].type = "Daily"
                 /\ statsCsv.rows[n].repo = rawCsv.rows[j].repo
                 /\ statsCsv.rows[n].period = DayPeriod(rawCsv.rows[j].published_at)}
    IN  IF I = {} THEN 0 ELSE statsCsv.rows[CHOOSE n \in I : TRUE].count

\* the table rows of the day and the repo of row j
SameDayIdx(j) ==
    {k \in DOMAIN rawCsv.rows :
        /\ rawCsv.rows[k].repo = rawCsv.rows[j].repo
        /\ DayPeriod(rawCsv.rows[k].published_at) = DayPeriod(rawCsv.rows[j].published_at)}

DailyRowsIdx == {n \in DOMAIN statsCsv.rows : statsCsv.rows[n].type = "Daily"}

\* C23: after a completed run, a record is left out of the statistics rows by
\* isWeekday exactly when its table row is left out by the load filter of the
\* stats service and by excludeWeekend of the dashboard: the two filters keep
\* the same rows, the daily count of a record's day and repo is the number of
\* kept rows of that day and repo, and the daily counts cover the kept rows only.
C23_WeekendAgreement ==
    mpc = "done" =>
        LET rows == rawCsv.rows
            Kept == {j \in DOMAIN rows : IsWorkdayRow(rows[j])}
        IN  /\ \A j \in DOMAIN rows :
                   /\ IsWorkdayRow(rows[j]) <=> NotWeekendRow(rows[j])
                   /\ DailyCountOf(j) = Cardinality(SameDayIdx(j) \cap Kept)
            /\ loadRawReleases(rows) = excludeWeekend(rows)
            /\ SeqSum([n \in 1..Len(statsCsv.rows) |->
                          IF n \in DailyRowsIdx THEN statsCsv.rows[n].count ELSE 0])
                   = Cardinality(Kept)

\* a completed run with a Sunday release and a weekday release: the table has
\* both rows, the statistics and the two filters have the weekday one only
C23_Witness ==
    /\ mpc = "done"
    /\ \E j \in DOMAIN rawCsv.rows :
           /\ rawCsv.rows[j].published_weekday = "Sunday"
           /\ DailyCountOf(j) = 0
    /\ \E j \in DOMAIN rawCsv.rows :
           /\ rawCsv.rows[j].published_weekday = "Wednesday"
           /\ DailyCountOf(j) > 0

====
